---- MODULE Spec2Model ----
(***************************************************************************)
(* A model of the C/C++ deprecation linter: main and tokenize_file         *)
(* (Source/deprecation-check.py), the character-driven scanner             *)
(* Tokenizer._parse_file (Source/tokenizer.py), its token sanitizer and    *)
(* the Tokenizer iterator protocol.                                        *)
(*                                                                         *)
(* A file is a sequence of one-character strings.  One action models one   *)
(* iteration of the scanner's main loop (the branch that iteration takes,  *)
(* every read it performs included), one step of the matcher's for loop,   *)
(* or one step of main.  Spec is a run of the program over the paths given *)
(* at startup; IterSpec is a client that iterates one Tokenizer object     *)
(* from several loops.  The variables how, tokenorigin, log and scans, the *)
(* origin field of tokens and the got and alone fields of readers are      *)
(* history variables: they record what happened; the code does not keep    *)
(* them and no guard reads them.                                           *)
(***************************************************************************)
EXTENDS Integers, Sequences, FiniteSets, TLC

VARIABLES
    inputs,                 \* args.inputs: the paths given at startup
    filelist,               \* main's filelist: the contents of the files to check
    fileIdx,                \* how many files of filelist main has taken
    log,                    \* history: what the run did, in order
    scans,                  \* history: content and token list of each finished scan
    readers,                \* the loops of a client that iterates the Tokenizer
    sourcefile,             \* the content of the file being scanned
    pos,                    \* sourcefile.tell(): number of characters read
    linechar,               \* the character the main loop holds ("" at EOF)
    in_multi_line_comment,
    in_string,
    linenum,
    tokenstr,               \* the in-progress token buffer
    tokenorigin,            \* history: file position of each tokenstr char
    how,                    \* history: how each consumed position was handled
    result,                 \* how _parse_file ended ("" while it runs)
    _tokenlist,
    _tokenIdx,
    cautionary, posix, windows,
    printed,                \* the lines tokenize_file printed, in order
    pc

vars == <<inputs, filelist, fileIdx, log, scans, readers, sourcefile, pos, linechar, in_multi_line_comment, in_string, linenum,
          tokenstr, tokenorigin, how, result, _tokenlist, _tokenIdx,
          cautionary, posix, windows, printed, pc>>

scanvars == <<in_multi_line_comment, in_string, linenum, tokenstr, tokenorigin,
              _tokenlist>>

matchvars == <<_tokenIdx, cautionary, posix, windows, printed>>

mainvars == <<inputs, filelist, fileIdx>>

\* the most for loops one reader starts over a Tokenizer
MaxIters == 2

\* the loops that may iterate one Tokenizer
Readers == 1..2

----------------------------------------------------------------------------
(* Bounds and inputs *)

\* Every file of at most MaxLen characters over Alphabet is scanned.
MaxLen == 4

Alphabet == {"/", "*", "\"", "'", "\\", "\n", " ", "g", "<", ">"}

\* 'int main() { return 0; } // uses gets'
LineCommentScenario ==
    <<"i", "n", "t", " ", "m", "a", "i", "n", "(", ")", " ", "{", " ", "r", "e", "t", "u", "r", "n", " ", "0", ";", " ", "}", " ", "/", "/", " ", "u", "s", "e", "s", " ", "g", "e", "t", "s">>
\* 'std::string s = "auto_ptr is a word";'
StringScenario ==
    <<"s", "t", "d", ":", ":", "s", "t", "r", "i", "n", "g", " ", "s", " ", "=", " ", "\"", "a", "u", "t", "o", "_", "p", "t", "r", " ", "i", "s", " ", "a", " ", "w", "o", "r", "d", "\"", ";">>
\* "char c = '\\'';\n"
CharEscapeScenario ==
    <<"c", "h", "a", "r", " ", "c", " ", "=", " ", "'", "\\", "'", "'", ";", "\n">>
\* '/* line1\nline2\nauto_ptr */\nint x;\n'
BlockLinesScenario ==
    <<"/", "*", " ", "l", "i", "n", "e", "1", "\n", "l", "i", "n", "e", "2", "\n", "a", "u", "t", "o", "_", "p", "t", "r", " ", "*", "/", "\n", "i", "n", "t", " ", "x", ";", "\n">>
\* '/*/*/*//gets\n'
SlashStarSlashLine ==
    <<"/", "*", "/", "*", "/", "*", "/", "/", "g", "e", "t", "s", "\n">>
\* '/*/"*/"gets "'
SlashStarSlashString ==
    <<"/", "*", "/", "\"", "*", "/", "\"", "g", "e", "t", "s", " ", "\"">>
\* '/*/"*/"\'"\'x\'ab '
SlashStarSlashChar ==
    <<"/", "*", "/", "\"", "*", "/", "\"", "'", "\"", "'", "x", "'", "a", "b", " ">>
\* '/*/ gets */\n'
SlashStarSlashBlock ==
    <<"/", "*", "/", " ", "g", "e", "t", "s", " ", "*", "/", "\n">>
\* 'auto_ptr<int> p;\n'
TemplateScenario ==
    <<"a", "u", "t", "o", "_", "p", "t", "r", "<", "i", "n", "t", ">", " ", "p", ";", "\n">>
\* 'gets(buf);\nrand();\tbcmp SHFree\n'
GetsScenario ==
    <<"g", "e", "t", "s", "(", "b", "u", "f", ")", ";", "\n", "r", "a", "n", "d", "(", ")", ";", "\t", "b", "c", "m", "p", " ", "S", "H", "F", "r", "e", "e", "\n">>
\* '/* a /* b */ c \n'
NestedScenario ==
    <<"/", "*", " ", "a", " ", "/", "*", " ", "b", " ", "*", "/", " ", "c", " ", "\n">>
\* 'g "gets \n'
OpenStringScenario ==
    <<"g", " ", "\"", "g", "e", "t", "s", " ", "\n">>

\* 'ge/**/ts '
JoinScenario ==
    <<"g", "e", "/", "*", "*", "/", "t", "s", " ">>
\* '"a\\\nb" /* c */ gets \n'
ContinuationScenario ==
    <<"\"", "a", "\\", "\n", "b", "\"", " ", "/", "*", " ", "c", " ", "*", "/", " ", "g", "e", "t", "s", " ", "\n">>
\* 'a<b>c '
FuseScenario ==
    <<"a", "<", "b", ">", "c", " ">>
\* 'a<b<c>d>e '
NestedTemplateScenario ==
    <<"a", "<", "b", "<", "c", ">", "d", ">", "e", " ">>
\* 'xgets gets\n'
SubstringScenario ==
    <<"x", "g", "e", "t", "s", " ", "g", "e", "t", "s", "\n">>

\* 'a "s" \'c\' /* b */ g //x\nh '
AllBranchesScenario ==
    <<"a", " ", "\"", "s", "\"", " ", "'", "c", "'", " ", "/", "*", " ", "b", " ", "*", "/", " ", "g", " ", "/", "/", "x", "\n", "h", " ">>

\* '"http://x" gets \n'
UrlScenario ==
    <<"\"", "h", "t", "t", "p", ":", "/", "/", "x", "\"", " ", "g", "e", "t", "s", " ", "\n">>

Scenarios ==
    {LineCommentScenario, StringScenario, CharEscapeScenario, BlockLinesScenario,
     SlashStarSlashLine, SlashStarSlashString, SlashStarSlashChar,
     SlashStarSlashBlock, TemplateScenario, GetsScenario, NestedScenario,
     OpenStringScenario, JoinScenario, ContinuationScenario, FuseScenario,
     NestedTemplateScenario, SubstringScenario, AllBranchesScenario,
     UrlScenario}

Inputs == UNION {[1..k -> Alphabet] : k \in 0..MaxLen} \cup Scenarios

\* A path given at startup: a file (with its content), a directory (with the
\* contents of the files get_files_from_dir finds in it), or a path that is
\* neither.
File(content) == [kind |-> "file", files |-> <<content>>]
Dir(contents) == [kind |-> "dir", files |-> contents]
Missing == [kind |-> "missing", files |-> <<>>]

\* A few lists of several paths.
SeveralPaths ==
    {<<>>,
     <<Missing>>,
     <<Missing, File(GetsScenario)>>,
     <<File(SubstringScenario), File(OpenStringScenario), File(SubstringScenario)>>,
     <<Dir(<<FuseScenario, JoinScenario>>), Missing, File(FuseScenario)>>}


----------------------------------------------------------------------------
(* The advisory mappings: the keys the model carries of each dictionary.   *)
(* A report is identified by the key whose message is printed.             *)

gets == <<"g", "e", "t", "s">>
auto_ptr == <<"a", "u", "t", "o", "_", "p", "t", "r">>
rand == <<"r", "a", "n", "d">>
bcmp == <<"b", "c", "m", "p">>
SHFree == <<"S", "H", "F", "r", "e", "e">>
\* line 128: the key is written with a blank at its end
DialogBoxParamWrapW ==
    <<"D", "i", "a", "l", "o", "g", "B", "o", "x", "P", "a", "r", "a", "m", "W", "r", "a", "p", "W", " ">>

deprecatedDict == {auto_ptr, gets}
cautionaryDict == {rand}
posixDict == {bcmp}
windowsDict == {SHFree, DialogBoxParamWrapW}

\* every key the model carries
AllKeys == deprecatedDict \cup cautionaryDict \cup posixDict \cup windowsDict

\* for each key, the file that holds the key as written and a line end
KeyFiles == {k \o <<"\n">> : k \in AllKeys}

\* The runs: one file, any of Inputs or KeyFiles, or one of SeveralPaths.
Runs == {<<File(f)>> : f \in Inputs \cup KeyFiles} \cup SeveralPaths

----------------------------------------------------------------------------
(* Strings and the file object *)

Min(a, b) == IF a < b THEN a ELSE b

\* str.isspace() of one character
Whitespace == {" ", "\t", "\n", "\r", "\f"}

\* str.isspace(): non-empty and every character is whitespace
isspace(s) == Len(s) > 0 /\ \A i \in 1..Len(s) : s[i] \in Whitespace

\* file.read(1) at offset p: the character, or "" at end of file
read1(p) == IF p < Len(sourcefile) THEN sourcefile[p + 1] ELSE ""

\* a read that returns its characters and leaves the offset where it was
AfterReadLeavingOffset(p, n) == p

\* the offset after file.read(n) at offset p
AfterRead(p, n) == Min(p + n, Len(sourcefile))

\* _peek(file): read(1) and seek back
_peek(p) == read1(p)

\* the offset after file.readline() at offset p: past the next newline, or EOF
AfterReadline(p) ==
    LET nl == {j \in (p + 1)..Len(sourcefile) : sourcefile[j] = "\n"}
    IN  IF nl = {} THEN Len(sourcefile)
        ELSE CHOOSE j \in nl : \A k \in nl : j <= k

\* n copies of the mark m
Marks(n, m) == [i \in 1..n |-> m]

----------------------------------------------------------------------------
(* _sanitize_add_token *)

\* the characters of the class [()!+-/*~^#?:><&|;{}]; +-/ is the range + , - . /
Punctuation ==
    {"(", ")", "!", "+", ",", "-", ".", "/", "*", "~", "^", "#", "?", ":", ">",
     "<", "&", "|", ";", "{", "}"}

\* re.sub("<[^>]*>", "", string): the indices of string that are kept, in order.
\* From index i on: a "<" with a later ">" is removed up to the first such ">".
RECURSIVE ClipKept(_, _)
ClipKept(string, i) ==
    IF i > Len(string) THEN <<>>
    ELSE LET close == {j \in (i + 1)..Len(string) : string[j] = ">"}
         IN  IF string[i] = "<" /\ close # {}
             THEN ClipKept(string, (CHOOSE j \in close : \A k \in close : j <= k) + 1)
             ELSE <<i>> \o ClipKept(string, i + 1)

\* the second re.sub: a kept character of the class becomes " "
Sanitized(string, kept) ==
    [n \in 1..Len(kept) |->
        IF string[kept[n]] \in Punctuation THEN " " ELSE string[kept[n]]]

\* santized_string.split(" ") with every item kept, the empty ones too
RECURSIVE SplitRunsKeepingEmpty(_, _, _)
SplitRunsKeepingEmpty(san, n, run) ==
    IF n > Len(san) THEN <<run>>
    ELSE IF san[n] = " "
         THEN <<run>> \o SplitRunsKeepingEmpty(san, n + 1, <<>>)
         ELSE SplitRunsKeepingEmpty(san, n + 1, Append(run, n))

\* santized_string.split(" ") with the empty items dropped: the non-empty
\* maximal runs without " ", each as the sequence of its indices into kept.
RECURSIVE SplitRuns(_, _, _)
SplitRuns(san, n, run) ==
    IF n > Len(san) THEN (IF run = <<>> THEN <<>> ELSE <<run>>)
    ELSE IF san[n] = " "
         THEN (IF run = <<>> THEN <<>> ELSE <<run>>) \o SplitRuns(san, n + 1, <<>>)
         ELSE SplitRuns(san, n + 1, Append(run, n))

\* Token(linenum, item), with the file positions item was built from
Token(linenum_, string, origin) ==
    [linenumber |-> linenum_, string |-> string, origin |-> origin]

\* the tokens _sanitize_add_token(linenum, string) appends
_sanitize_add_token(linenum_, string, origin) ==
    LET kept == ClipKept(string, 1)
        san  == Sanitized(string, kept)
        runs == SplitRuns(san, 1, <<>>)
    IN  [r \in 1..Len(runs) |->
            Token(linenum_,
                  [n \in 1..Len(runs[r]) |-> san[runs[r][n]]],
                  [n \in 1..Len(runs[r]) |-> origin[kept[runs[r][n]]]])]

----------------------------------------------------------------------------
(* main, tokenize_file, Tokenizer.__init__ and the start of _parse_file *)

\* no reader has started a loop
NoReader ==
    [r \in Readers |-> [at |-> "idle", got |-> <<>>, iters |-> 0, alone |-> TRUE]]

\* the process has started: no Tokenizer exists yet
Init ==
    /\ inputs \in Runs
    /\ filelist = <<>>
    /\ fileIdx = 0
    /\ log = <<>>
    /\ scans = <<>>
    /\ readers = NoReader
    /\ sourcefile = <<>>
    /\ _tokenlist = <<>>
    /\ _tokenIdx = 0
    /\ in_multi_line_comment = FALSE
    /\ in_string = FALSE
    /\ linenum = 1
    /\ linechar = ""
    /\ pos = 0
    /\ tokenstr = <<>>
    /\ tokenorigin = <<>>
    /\ how = <<>>
    /\ result = ""
    /\ cautionary = FALSE /\ posix = FALSE /\ windows = FALSE
    /\ printed = <<>>
    /\ pc = "main"

\* deprecation-check.py lines 331-336: the files of the paths from path n on;
\* a path that is neither a directory nor a file adds nothing
RECURSIVE BuildFileList(_, _)
BuildFileList(paths, n) ==
    IF n > Len(paths) THEN <<>>
    ELSE (IF paths[n].kind = "dir" THEN paths[n].files
          ELSE IF paths[n].kind = "file" THEN paths[n].files
          ELSE <<>>)
         \o BuildFileList(paths, n + 1)

\* main up to line 336: the paths are turned into the list of files
main ==
    /\ pc = "main"
    /\ filelist' = BuildFileList(inputs, 1)
    /\ pc' = "files"
    /\ UNCHANGED <<inputs, fileIdx, log, scans, readers, sourcefile, pos, linechar,
                   how, result>>
    /\ UNCHANGED scanvars
    /\ UNCHANGED matchvars

\* a Tokenizer whose token list is the one of the Tokenizer before it
NewTokenizerSharingList(content) ==
    /\ sourcefile' = content
    /\ _tokenlist' = _tokenlist
    /\ _tokenIdx' = 0
    /\ in_multi_line_comment' = FALSE
    /\ in_string' = FALSE
    /\ linenum' = 1
    /\ tokenstr' = <<>>
    /\ tokenorigin' = <<>>
    /\ how' = <<>>
    /\ result' = ""
    /\ linechar' = (IF Len(content) > 0 THEN content[1] ELSE "")
    /\ pos' = Min(1, Len(content))

\* Tokenizer.__init__ (lines 20-24) and _parse_file up to its first read
\* (lines 60-66): a fresh token list, cursor and scanner state for the file
NewTokenizer(content) ==
    /\ sourcefile' = content
    /\ _tokenlist' = <<>>
    /\ _tokenIdx' = 0
    /\ in_multi_line_comment' = FALSE
    /\ in_string' = FALSE
    /\ linenum' = 1
    /\ tokenstr' = <<>>
    /\ tokenorigin' = <<>>
    /\ how' = <<>>
    /\ result' = ""
    /\ linechar' = (IF Len(content) > 0 THEN content[1] ELSE "")
    /\ pos' = Min(1, Len(content))

\* a for loop that takes the next file while the loop over the tokens of the
\* file before it is still running
TakesNextFileEarly == pc \in {"files", "loop", "end"} /\ fileIdx < Len(filelist)

\* main line 338: the for loop has a file left and no call of tokenize_file
\* is running
TakesNextFile == pc \in {"files", "end"} /\ fileIdx < Len(filelist)

\* main lines 338-339 and tokenize_file line 307: the next file is taken and
\* its Tokenizer is constructed
tokenize_file ==
    /\ TakesNextFile
    /\ fileIdx' = fileIdx + 1
    /\ NewTokenizer(filelist[fileIdx + 1])
    /\ printed' = <<>>
    /\ log' = Append(log, [ev |-> "begin", file |-> fileIdx + 1, token |-> 0])
    /\ pc' = "parse"
    /\ UNCHANGED <<inputs, filelist, scans, readers, cautionary, posix, windows>>

\* main line 338 with no file left: the process ends
Exit ==
    /\ pc \in {"files", "end"}
    /\ ~(fileIdx < Len(filelist))
    /\ pc' = "done"
    /\ UNCHANGED <<log, scans, readers, sourcefile, pos, linechar, how, result>>
    /\ UNCHANGED mainvars
    /\ UNCHANGED scanvars
    /\ UNCHANGED matchvars

----------------------------------------------------------------------------
(* One iteration of the main loop of _parse_file *)

InLoop == pc = "parse" /\ linechar # ""

\* lines 69-70: the line counter after the newline test on linechar
CountNewline == IF linechar = "\n" THEN linenum + 1 ELSE linenum

\* line 72 without the block-comment test
NormalIgnoringBlockComment == ~in_string

\* line 72 without the string test
NormalIgnoringString == ~in_multi_line_comment

\* line 72
Normal == ~in_multi_line_comment /\ ~in_string

\* history: the mark of a character consumed in this iteration, with the
\* lexical flags in force when the iteration began
Mark(by, as) ==
    [by |-> by, as |-> as,
     in_multi_line_comment |-> in_multi_line_comment, in_string |-> in_string]

\* line 99, after the iteration left the file at offset q.  History: linechar
\* was handled as `as' by the loop, the q - pos characters read past it were
\* dropped as `skipped'
ReadNext(q, as, skipped) ==
    /\ linechar' = read1(q)
    /\ pos' = AfterRead(q, 1)
    /\ how' = how \o <<Mark("loop", as)>> \o Marks(q - pos, Mark("skip", skipped))
    /\ UNCHANGED <<sourcefile, result, pc, log, scans, readers>>
    /\ UNCHANGED mainvars
    /\ UNCHANGED matchvars

\* lines 73-75: "//" in normal code: the rest of the line is read and dropped
LineComment ==
    /\ InLoop /\ Normal
    /\ linechar = "/" /\ _peek(pos) = "/"
    /\ linenum' = CountNewline + 1
    /\ UNCHANGED <<in_multi_line_comment, in_string, tokenstr, tokenorigin, _tokenlist>>
    /\ ReadNext(AfterReadline(pos), "lcopen", "lc")

\* lines 76-77: "/*" in normal code
OpenBlockComment ==
    /\ InLoop /\ Normal
    /\ linechar = "/" /\ _peek(pos) # "/" /\ _peek(pos) = "*"
    /\ in_multi_line_comment' = TRUE
    /\ linenum' = CountNewline
    /\ UNCHANGED <<in_string, tokenstr, tokenorigin, _tokenlist>>
    /\ ReadNext(pos, "bcopen", "")

\* lines 78-79: a double quote in normal code
OpenString ==
    /\ InLoop /\ Normal
    /\ linechar = "\""
    /\ in_string' = TRUE
    /\ linenum' = CountNewline
    /\ UNCHANGED <<in_multi_line_comment, tokenstr, tokenorigin, _tokenlist>>
    /\ ReadNext(pos, "stropen", "")

\* lines 81-84: the number of characters read after a single quote
CharSkip == IF _peek(pos) = "\\" THEN 3 ELSE 2

\* lines 80-84: a single quote in normal code
CharLiteral ==
    /\ InLoop /\ Normal
    /\ linechar = "'"
    /\ linenum' = CountNewline
    /\ UNCHANGED <<in_multi_line_comment, in_string, tokenstr, tokenorigin, _tokenlist>>
    /\ ReadNext(AfterRead(pos, CharSkip), "chropen", "chr")

\* line 85
EndsToken == linechar \in Whitespace /\ ~isspace(tokenstr)

\* the other tests of the normal-code chain, lines 73-84
Opener ==
    \/ linechar = "/" /\ _peek(pos) \in {"/", "*"}
    \/ linechar \in {"\"", "'"}

\* lines 85-87: whitespace in normal code ends the token
FlushToken ==
    /\ InLoop /\ Normal /\ ~Opener
    /\ EndsToken
    /\ linenum' = CountNewline
    /\ _tokenlist' = _tokenlist \o _sanitize_add_token(linenum', tokenstr, tokenorigin)
    /\ tokenstr' = <<>>
    /\ tokenorigin' = <<>>
    /\ UNCHANGED <<in_multi_line_comment, in_string>>
    /\ ReadNext(pos, "space", "")

\* lines 88-89: any other character of normal code joins the token
AppendChar ==
    /\ InLoop /\ Normal /\ ~Opener
    /\ ~EndsToken
    /\ linenum' = CountNewline
    /\ tokenstr' = Append(tokenstr, linechar)
    /\ tokenorigin' = Append(tokenorigin, pos)
    /\ UNCHANGED <<in_multi_line_comment, in_string, _tokenlist>>
    /\ ReadNext(pos, "code", "")

\* line 90
ClosesBlock == in_multi_line_comment /\ linechar = "*" /\ _peek(pos) = "/"

\* a close that drops the rest of the closing line with the "*/"
CloseBlockCommentDroppingLine ==
    /\ InLoop /\ ~Normal
    /\ ClosesBlock
    /\ in_multi_line_comment' = FALSE
    /\ linenum' = CountNewline + 1
    /\ UNCHANGED <<in_string, tokenstr, tokenorigin, _tokenlist>>
    /\ ReadNext(AfterReadline(pos), "bcclose", "bcclose")

\* lines 90-92: "*/" in a block comment; the "/" is read and dropped
CloseBlockComment ==
    /\ InLoop /\ ~Normal
    /\ ClosesBlock
    /\ in_multi_line_comment' = FALSE
    /\ linenum' = CountNewline
    /\ UNCHANGED <<in_string, tokenstr, tokenorigin, _tokenlist>>
    /\ ReadNext(AfterRead(pos, 1), "bcclose", "bcclose")

\* a string scanner without line 94: the backslash is an ordinary character
InStringWithoutEscape ==
    /\ InLoop /\ ~Normal
    /\ ~ClosesBlock /\ in_string
    /\ in_string' = (linechar # "\"")
    /\ linenum' = CountNewline
    /\ UNCHANGED <<in_multi_line_comment, tokenstr, tokenorigin, _tokenlist>>
    /\ ReadNext(pos, IF linechar = "\"" THEN "strclose" ELSE "str", "")

\* lines 93-97: a character of a string literal
InString ==
    /\ InLoop /\ ~Normal
    /\ ~ClosesBlock /\ in_string
    /\ in_string' = (IF linechar = "\\" THEN in_string ELSE linechar # "\"")
    /\ linenum' = CountNewline
    /\ UNCHANGED <<in_multi_line_comment, tokenstr, tokenorigin, _tokenlist>>
    /\ IF linechar = "\\"
       THEN ReadNext(AfterRead(pos, 1), "stresc", "stresc")
       ELSE ReadNext(pos, IF linechar = "\"" THEN "strclose" ELSE "str", "")

\* lines 72-97 when no branch is taken: a character of a block comment
InBlockComment ==
    /\ InLoop /\ ~Normal
    /\ ~ClosesBlock /\ ~in_string
    /\ linenum' = CountNewline
    /\ UNCHANGED <<in_multi_line_comment, in_string, tokenstr, tokenorigin, _tokenlist>>
    /\ ReadNext(pos, "bc", "")

\* line 68 at end of file: the loop ends, the file is closed, __init__ returns
EndOfFile ==
    /\ pc = "parse" /\ linechar = ""
    /\ result' = "returned"
    /\ pc' = "parsed"
    /\ log' = Append(log, [ev |-> "scanned", file |-> fileIdx, token |-> 0])
    /\ scans' = Append(scans,
                       [content |-> sourcefile,
                        tokens |-> [t \in 1..Len(_tokenlist) |->
                                      <<_tokenlist[t].linenumber, _tokenlist[t].string>>]])
    /\ UNCHANGED <<sourcefile, pos, linechar, how, readers>>
    /\ UNCHANGED mainvars
    /\ UNCHANGED scanvars
    /\ UNCHANGED matchvars

----------------------------------------------------------------------------
(* tokenize_file: the for loop over the Tokenizer *)

\* k occurs in s as a contiguous stretch
IsSubstring(k, s) ==
    \E i \in 1..(Len(s) - Len(k) + 1) : SubSeq(s, i, i + Len(k) - 1) = k

\* a matcher that tests containment (key in token.string) instead of equality
ReportsBySubstring(token, c, p, w) ==
    LET line(dict) == [dict |-> dict, linenumber |-> token.linenumber,
                       key |-> token.string, origin |-> token.origin]
        holds(dict) == \E k \in dict : IsSubstring(k, token.string)
    IN  (IF holds(deprecatedDict) THEN <<line("deprecated")>> ELSE <<>>)
        \o (IF c /\ holds(cautionaryDict) THEN <<line("cautionary")>> ELSE <<>>)
        \o (IF p /\ holds(posixDict) THEN <<line("posix")>> ELSE <<>>)
        \o (IF w /\ holds(windowsDict) THEN <<line("windows")>> ELSE <<>>)

\* a matcher that tests every mapping whatever the flags are
ReportsIgnoringFlags(token, c, p, w) ==
    LET line(dict) == [dict |-> dict, linenumber |-> token.linenumber,
                       key |-> token.string, origin |-> token.origin]
    IN  (IF token.string \in deprecatedDict THEN <<line("deprecated")>> ELSE <<>>)
        \o (IF token.string \in cautionaryDict THEN <<line("cautionary")>> ELSE <<>>)
        \o (IF token.string \in posixDict THEN <<line("posix")>> ELSE <<>>)
        \o (IF token.string \in windowsDict THEN <<line("windows")>> ELSE <<>>)

\* lines 309-316: the lines printed for one token, in order
Reports(token, c, p, w) ==
    LET line(dict) == [dict |-> dict, linenumber |-> token.linenumber,
                       key |-> token.string, origin |-> token.origin]
    IN  (IF token.string \in deprecatedDict THEN <<line("deprecated")>> ELSE <<>>)
        \o (IF c /\ token.string \in cautionaryDict THEN <<line("cautionary")>> ELSE <<>>)
        \o (IF p /\ token.string \in posixDict THEN <<line("posix")>> ELSE <<>>)
        \o (IF w /\ token.string \in windowsDict THEN <<line("windows")>> ELSE <<>>)

\* an __iter__ that leaves the cursor where it is
KeepCursor == _tokenIdx' = _tokenIdx

\* Tokenizer.__iter__ (lines 32-34)
ResetCursor == _tokenIdx' = 0

\* line 308, Tokenizer.__iter__ (lines 32-34).  The flags main passes to every
\* call of tokenize_file (line 339) are fixed here for the run, before the
\* loop body of the first file reads them
__iter__ ==
    /\ pc = "parsed"
    /\ ResetCursor
    /\ IF fileIdx = 1
       THEN cautionary' \in BOOLEAN /\ posix' \in BOOLEAN /\ windows' \in BOOLEAN
       ELSE UNCHANGED <<cautionary, posix, windows>>
    /\ pc' = "loop"
    /\ UNCHANGED <<log, scans, readers, sourcefile, pos, linechar, how, result, printed>>
    /\ UNCHANGED mainvars
    /\ UNCHANGED scanvars

\* Tokenizer.__next__ (lines 39-42) returning a token, and the loop body
__next__ ==
    /\ pc = "loop"
    /\ ~(_tokenIdx >= Len(_tokenlist))
    /\ _tokenIdx' = _tokenIdx + 1
    /\ printed' = printed \o Reports(_tokenlist[_tokenIdx + 1], cautionary, posix, windows)
    /\ log' = Append(log, [ev |-> "body", file |-> fileIdx, token |-> _tokenIdx + 1])
    /\ UNCHANGED <<scans, readers, sourcefile, pos, linechar, how, result, cautionary,
                   posix, windows, pc>>
    /\ UNCHANGED mainvars
    /\ UNCHANGED scanvars

\* Tokenizer.__next__ (lines 37-38) raising StopIteration: the loop ends and
\* tokenize_file returns
StopIteration ==
    /\ pc = "loop"
    /\ _tokenIdx >= Len(_tokenlist)
    /\ pc' = "end"
    /\ UNCHANGED <<log, scans, readers, sourcefile, pos, linechar, how, result>>
    /\ UNCHANGED mainvars
    /\ UNCHANGED scanvars
    /\ UNCHANGED matchvars

----------------------------------------------------------------------------

\* _parse_file: one iteration of its main loop, or its end
Scan ==
    \/ LineComment
    \/ OpenBlockComment
    \/ OpenString
    \/ CharLiteral
    \/ FlushToken
    \/ AppendChar
    \/ CloseBlockComment
    \/ InString
    \/ InBlockComment
    \/ EndOfFile

Next ==
    \/ main
    \/ tokenize_file
    \/ Scan
    \/ __iter__
    \/ __next__
    \/ StopIteration
    \/ Exit

Spec == Init /\ [][Next]_vars

\* The construction of the first Tokenizer of a run, on its own: main, the
\* call of tokenize_file and the scan.  The process is sequential and runs
\* its next statement whenever it has one.
ScanNext ==
    \/ main
    \/ tokenize_file
    \/ Scan

ScanSpec == Init /\ [][ScanNext]_vars /\ WF_vars(ScanNext)

----------------------------------------------------------------------------
(* A client of the Tokenizer class: for loops of several readers over one  *)
(* Tokenizer object, each loop calling iter() once and then next() until   *)
(* StopIteration, a loop possibly being left part-way.  History, per       *)
(* reader: got, the indices of the tokens its current loop received, and   *)
(* alone, whether no other reader called the object since the loop began.  *)

\* the files the client constructs a Tokenizer for
IterInputs == {AllBranchesScenario, SubstringScenario}

\* the readers after reader r called the object: a call disturbs the loops
\* the other readers are in
Called(r) ==
    [q \in Readers |->
        IF q # r /\ readers[q].at = "iterating"
        THEN [readers[q] EXCEPT !.alone = FALSE]
        ELSE readers[q]]

\* a for loop of reader r begins: Tokenizer.__iter__ (lines 32-34)
ReaderIter(r) ==
    /\ pc = "parsed"
    /\ readers[r].iters < MaxIters
    /\ ResetCursor
    /\ readers' = [Called(r) EXCEPT ![r] =
                      [at |-> "iterating", got |-> <<>>,
                       iters |-> readers[r].iters + 1, alone |-> TRUE]]
    /\ UNCHANGED <<log, scans, sourcefile, pos, linechar, how, result, pc,
                   cautionary, posix, windows, printed>>
    /\ UNCHANGED mainvars
    /\ UNCHANGED scanvars

\* Tokenizer.__next__ (lines 39-42) returning a token to reader r
ReaderNext(r) ==
    /\ pc = "parsed"
    /\ readers[r].at = "iterating"
    /\ ~(_tokenIdx >= Len(_tokenlist))
    /\ _tokenIdx' = _tokenIdx + 1
    /\ readers' = [Called(r) EXCEPT ![r].got = Append(@, _tokenIdx + 1)]
    /\ UNCHANGED <<log, scans, sourcefile, pos, linechar, how, result, pc,
                   cautionary, posix, windows, printed>>
    /\ UNCHANGED mainvars
    /\ UNCHANGED scanvars

\* Tokenizer.__next__ (lines 37-38) raising StopIteration: the loop of reader
\* r ends
ReaderStop(r) ==
    /\ pc = "parsed"
    /\ readers[r].at = "iterating"
    /\ _tokenIdx >= Len(_tokenlist)
    /\ readers' = [readers EXCEPT ![r].at = "done"]
    /\ UNCHANGED <<log, scans, sourcefile, pos, linechar, how, result, pc>>
    /\ UNCHANGED mainvars
    /\ UNCHANGED scanvars
    /\ UNCHANGED matchvars

IterInit == Init /\ inputs \in {<<File(f)>> : f \in IterInputs}

IterNext ==
    \/ main
    \/ tokenize_file
    \/ Scan
    \/ \E r \in Readers : ReaderIter(r)
    \/ \E r \in Readers : ReaderNext(r)
    \/ \E r \in Readers : ReaderStop(r)

IterSpec == IterInit /\ [][IterNext]_vars

----------------------------------------------------------------------------
(* What the properties below speak of *)

\* the file positions every emitted token was built from
EmittedOrigins ==
    UNION {{_tokenlist[t].origin[n] : n \in 1..Len(_tokenlist[t].origin)} :
           t \in 1..Len(_tokenlist)}

BufferOrigins == {tokenorigin[n] : n \in 1..Len(tokenorigin)}

\* the position was read by the main loop in normal code and joined the buffer
CollectedInNormalCode(p) ==
    /\ p \in 1..Len(how)
    /\ how[p].by = "loop" /\ how[p].as = "code"
    /\ ~how[p].in_multi_line_comment /\ ~how[p].in_string

\* The lexical structure of a file as C/C++ delimits it, one class per
\* position from position i on, position i being in normal code:
\*   "lc"   a line comment, from its // up to but not including the newline
\*   "bc"   a block comment, from its /* to the first */ that begins after it
\*   "str"  a string literal, from its quote to the first unescaped quote
\*   "chr"  a character literal 'c' or '\c' up to its closing quote, "chrq"
\*   "bcopen", "stropen", "chropen"  the same, cut short by the end of file
\*   "undef" from a single quote on that opens none of these
\*   "code" everything else
RECURSIVE StringEnd(_, _)
StringEnd(s, j) ==
    IF j > Len(s) THEN 0
    ELSE IF s[j] = "\\" THEN StringEnd(s, j + 2)
    ELSE IF s[j] = "\"" THEN j
    ELSE StringEnd(s, j + 1)

RECURSIVE CLex(_, _)
CLex(s, i) ==
    IF i > Len(s) THEN <<>>
    ELSE
    LET n == Len(s)
        c == s[i]
        d == IF i < n THEN s[i + 1] ELSE ""
        rest == n - i + 1
    IN  IF c = "/" /\ d = "/"
        THEN LET nl == {j \in i..n : s[j] = "\n"}
                 e  == IF nl = {} THEN n + 1 ELSE CHOOSE j \in nl : \A k \in nl : j <= k
             IN  Marks(e - i, "lc") \o CLex(s, e)
        ELSE IF c = "/" /\ d = "*"
        THEN LET cl == {j \in (i + 2)..(n - 1) : s[j] = "*" /\ s[j + 1] = "/"}
             IN  IF cl = {} THEN Marks(rest, "bcopen")
                 ELSE LET j == CHOOSE j \in cl : \A k \in cl : j <= k
                      IN  Marks(j + 2 - i, "bc") \o CLex(s, j + 2)
        ELSE IF c = "\""
        THEN LET e == StringEnd(s, i + 1)
             IN  IF e = 0 THEN Marks(rest, "stropen")
                 ELSE Marks(e + 1 - i, "str") \o CLex(s, e + 1)
        ELSE IF c = "'"
        THEN LET k == IF d = "\\" THEN 3 ELSE 2
             IN  IF i + k > n THEN Marks(rest, "chropen")
                 ELSE IF s[i + k] = "'" /\ (k = 3 \/ d \notin {"'", "\n"})
                 THEN Marks(k, "chr") \o <<"chrq">> \o CLex(s, i + k + 1)
                 ELSE Marks(rest, "undef")
        ELSE <<"code">> \o CLex(s, i + 1)

\* the positions of the file that C/C++ puts in class cls
Class(cls) ==
    LET lex == CLex(sourcefile, 1)
    IN  {p \in 1..Len(sourcefile) : lex[p] = cls}

----------------------------------------------------------------------------
(* C1 *)

\* C1: every character of the token buffer and of every emitted token was
\* read by the main loop while neither in_multi_line_comment nor in_string
\* was set, was not an opener, a whitespace or a skipped character, and is
\* the character of the file at that position.
TokensOnlyFromNormalCode ==
    /\ Len(tokenorigin) = Len(tokenstr)
    /\ \A n \in 1..Len(tokenstr) :
          /\ CollectedInNormalCode(tokenorigin[n])
          /\ tokenstr[n] = sourcefile[tokenorigin[n]]
    /\ \A t \in 1..Len(_tokenlist) :
          /\ Len(_tokenlist[t].origin) = Len(_tokenlist[t].string)
          /\ \A n \in 1..Len(_tokenlist[t].string) :
                /\ CollectedInNormalCode(_tokenlist[t].origin[n])
                /\ _tokenlist[t].string[n] = sourcefile[_tokenlist[t].origin[n]]

\* C1 witness: a finished scan that emitted a token although characters were
\* read inside a block comment, inside a string and by a skip.
TokensBesideCommentsAndLiterals ==
    /\ pc = "parsed"
    /\ Len(_tokenlist) > 0
    /\ \E p \in 1..Len(how) : how[p].in_string
    /\ \E p \in 1..Len(how) : how[p].in_multi_line_comment
    /\ \E p \in 1..Len(how) : how[p].by = "skip"

----------------------------------------------------------------------------
(* C2 - C5: comments and literals as C/C++ delimits them *)

\* C2: no character of a // line comment (from the // up to but not
\* including the newline) is part of an emitted token, and no printed report
\* is for a token built from such a character.
NoLineCommentCharInToken ==
    /\ EmittedOrigins \cap Class("lc") = {}
    /\ \A r \in 1..Len(printed) :
          {printed[r].origin[n] : n \in 1..Len(printed[r].origin)} \cap Class("lc") = {}

\* C3: no character inside a /* ... */ block comment, as C/C++ delimits it,
\* is part of an emitted token.
NoBlockCommentCharInToken == EmittedOrigins \cap Class("bc") = {}

\* C4: no character inside a "..." string literal (backslash escapes
\* respected) is part of an emitted token.
NoStringCharInToken == EmittedOrigins \cap Class("str") = {}

\* C5: no character inside a '...' character literal (one plain character or
\* one backslash escape) is part of an emitted token, and the scanner resumes
\* normal tokenizing exactly at the character after the closing quote: the
\* opening quote is read by the main loop in normal code, the characters up
\* to the closing quote are not read by the main loop, and the next one is
\* read by the main loop in normal code.
CharLiteralSkippedExactly ==
    /\ EmittedOrigins \cap Class("chr") = {}
    /\ \A q \in Class("chrq") :
          LET o == IF sourcefile[q - 2] = "'" THEN q - 2 ELSE q - 3
          IN  Len(how) > q =>
                /\ how[o].by = "loop" /\ ~how[o].in_multi_line_comment /\ ~how[o].in_string
                /\ \A p \in (o + 1)..q : how[p].by = "skip"
                /\ how[q + 1].by = "loop"
                /\ ~how[q + 1].in_multi_line_comment /\ ~how[q + 1].in_string

----------------------------------------------------------------------------
(* C6 - C8: malformed comments and literals *)

\* the main loop read a "/" followed by "*" while in_multi_line_comment
NestedOpenerRead ==
    \E p \in 1..Len(how) :
        /\ how[p].by = "loop" /\ how[p].in_multi_line_comment
        /\ sourcefile[p] = "/"
        /\ p < Len(sourcefile) /\ sourcefile[p + 1] = "*"

\* C6: once /* has been encountered inside a block comment the scan has
\* failed with a ParseError.
NestedBlockCommentIsParseError == NestedOpenerRead => result = "ParseError"

\* C7: a scan that reached the end of the file inside an open block comment
\* failed with a ParseError.
OpenBlockCommentAtEofIsParseError ==
    (pc # "parse" /\ in_multi_line_comment) => result = "ParseError"

\* the position of the last character the main loop handled as `as'
LastHandled(as) ==
    LET at == {p \in 1..Len(how) : how[p].by = "loop" /\ how[p].as = as}
    IN  IF at = {} THEN 0 ELSE CHOOSE p \in at : \A o \in at : o <= p

\* the scan ended inside a string literal
EofInString == pc # "parse" /\ in_string

\* the scan ended inside a character literal: the last thing the scanner did
\* was to skip past a single quote, and the file ended before the place of
\* the closing quote
EofInCharLiteral ==
    LET o == LastHandled("chropen")
    IN  /\ pc # "parse"
        /\ o > 0
        /\ \A p \in (o + 1)..Len(how) : how[p].by = "skip"
        /\ o + (IF o < Len(sourcefile) /\ sourcefile[o + 1] = "\\" THEN 3 ELSE 2)
             > Len(sourcefile)

----------------------------------------------------------------------------
(* C9, C10: plain code *)

\* str.split(): the maximal runs of s without whitespace, in order
RECURSIVE Words(_, _, _)
Words(s, i, word) ==
    IF i > Len(s) THEN (IF word = <<>> THEN <<>> ELSE <<word>>)
    ELSE IF s[i] \in Whitespace
         THEN (IF word = <<>> THEN <<>> ELSE <<word>>) \o Words(s, i + 1, <<>>)
         ELSE Words(s, i + 1, Append(word, s[i]))

\* the texts sanitization yields for each word of ws, in order
RECURSIVE SanitizedWords(_, _)
SanitizedWords(ws, i) ==
    IF i > Len(ws) THEN <<>>
    ELSE LET toks == _sanitize_add_token(0, ws[i], [n \in 1..Len(ws[i]) |-> n])
         IN  [t \in 1..Len(toks) |-> toks[t].string] \o SanitizedWords(ws, i + 1)

\* the file holds no /*, no //, no double and no single quote
PlainCode ==
    /\ \A i \in 1..Len(sourcefile) : sourcefile[i] \notin {"\"", "'"}
    /\ \A i \in 1..(Len(sourcefile) - 1) :
          ~(sourcefile[i] = "/" /\ sourcefile[i + 1] \in {"/", "*"})

\* C9: for a file of plain code the texts of the emitted tokens are the
\* whitespace-split words of the whole file, each sanitized, in order.
TokensAreSanitizedWords ==
    (pc = "parsed" /\ PlainCode) =>
        [t \in 1..Len(_tokenlist) |-> _tokenlist[t].string]
            = SanitizedWords(Words(sourcefile, 1, <<>>), 1)

\* the 1-based line of position p
LineOf(p) == 1 + Cardinality({j \in 1..(p - 1) : sourcefile[j] = "\n"})

\* C10: every emitted token carries the 1-based number of the line its last
\* character is on.
LineNumberIsLineOfLastChar ==
    \A t \in 1..Len(_tokenlist) :
        _tokenlist[t].linenumber
            = LineOf(_tokenlist[t].origin[Len(_tokenlist[t].origin)])

----------------------------------------------------------------------------
(* C11 - C14: the end of a token and the line counter *)

\* C11: when the scan has finished in normal code, every token that
\* sanitizing the characters left in the buffer yields has been emitted: no
\* trailing run of characters is lost at the end of the file.
BufferEmittedAtEof ==
    (pc # "parse" /\ ~in_multi_line_comment /\ ~in_string) =>
        LET last == _sanitize_add_token(linenum, tokenstr, tokenorigin)
        IN  \A k \in 1..Len(last) :
                \E t \in 1..Len(_tokenlist) :
                    /\ _tokenlist[t].string = last[k].string
                    /\ _tokenlist[t].origin = last[k].origin

\* the positions strictly between consecutive characters of a run of origins
Between(origin) ==
    UNION {(origin[n] + 1)..(origin[n + 1] - 1) : n \in 1..(Len(origin) - 1)}

\* C12: the characters of the buffer, and of every emitted token, are never
\* joined across a line comment, a block comment, a string or a character
\* literal: every position of the file between two of them was itself
\* collected in normal code.
NoTokenAcrossCommentOrLiteral ==
    /\ \A p \in Between(tokenorigin) : CollectedInNormalCode(p)
    /\ \A t \in 1..Len(_tokenlist) :
          \A p \in Between(_tokenlist[t].origin) : CollectedInNormalCode(p)

\* the newlines among the characters consumed so far
NewlinesConsumed == {p \in 1..Len(how) : sourcefile[p] = "\n"}

\* C13: at every point of the scan the line counter is 1 plus the number of
\* newline characters consumed so far, however they were consumed.
LineCounterCountsEveryNewline == linenum = 1 + Cardinality(NewlinesConsumed)

\* the positions of the "/" of each "*/" that closed a block comment
BlockClosers ==
    {p \in 1..Len(how) : how[p].by = "skip" /\ how[p].as = "bcclose"}

\* the emitted tokens built only from characters after position p
TokensAfter(p) == {t \in 1..Len(_tokenlist) : _tokenlist[t].origin[1] > p}

\* C14: right after a block comment is closed the line counter is 1 plus the
\* number of newlines consumed so far, and the first token that follows a
\* closed block comment carries the number of the line it is on.
LineCounterRightAfterBlockComment ==
    /\ (Len(how) \in BlockClosers) => linenum = 1 + Cardinality(NewlinesConsumed)
    /\ \A p \in BlockClosers : \A t \in TokensAfter(p) :
          (\A u \in TokensAfter(p) : t <= u) =>
              _tokenlist[t].linenumber = LineOf(_tokenlist[t].origin[1])

----------------------------------------------------------------------------
(* C15, C16: leaving a string and a block comment *)

\* in_string as it was right after position p was consumed
InStringAfter(p) == IF p < Len(how) THEN how[p + 1].in_string ELSE in_string

\* C15: of the characters consumed while in_string was set, a backslash read
\* by the main loop takes the next character with it (that one is skipped,
\* never read by the loop), nothing else is skipped, and in_string is reset
\* exactly by a double quote the main loop read: the first one that is not
\* the second character of such a unit.
StringEscapeIsOneUnit ==
    \A p \in 1..Len(how) :
        how[p].in_string =>
            /\ (how[p].by = "loop" /\ sourcefile[p] = "\\" /\ p < Len(sourcefile))
                  => (p < Len(how) /\ how[p + 1].by = "skip" /\ how[p + 1].in_string)
            /\ how[p].by = "skip"
                  => (p > 1 /\ how[p - 1].by = "loop" /\ how[p - 1].in_string
                            /\ sourcefile[p - 1] = "\\")
            /\ InStringAfter(p) = ~(how[p].by = "loop" /\ sourcefile[p] = "\"")

\* C15 witness: a finished scan in which an escaped double quote was skipped
\* inside a string and a later double quote closed that string.
EscapedQuoteThenClosed ==
    /\ pc = "parsed" /\ ~in_string
    /\ \E p \in 1..Len(how) :
          /\ how[p].by = "skip" /\ how[p].in_string /\ sourcefile[p] = "\""
          /\ \E q \in (p + 1)..Len(how) :
                how[q].by = "loop" /\ how[q].in_string /\ sourcefile[q] = "\""

\* C16 as stated: no emitted token holds a character that lies between the
\* "*/" that closed a block comment and the next newline.
NoTokenFromClosingLine ==
    \A p \in BlockClosers : \A o \in EmittedOrigins :
        o > p => \E j \in (p + 1)..(o - 1) : sourcefile[j] = "\n"

\* C16, amended: a "*/" that closes a block comment puts the scanner back in
\* normal code at once: neither flag is set after it, only the "/" is
\* dropped, and the character after it is read by the main loop in normal
\* code like any other.
NormalCodeRightAfterBlockComment ==
    /\ (Len(how) \in BlockClosers) => (~in_multi_line_comment /\ ~in_string)
    /\ \A p \in BlockClosers :
          /\ how[p - 1].by = "loop" /\ sourcefile[p - 1] = "*" /\ sourcefile[p] = "/"
          /\ p < Len(how) =>
                /\ how[p + 1].by = "loop"
                /\ ~how[p + 1].in_multi_line_comment /\ ~how[p + 1].in_string

\* C16 witness: a token was emitted from characters of the closing line of
\* a block comment, after its "*/".
TokenFromClosingLine ==
    \E p \in BlockClosers : \E t \in 1..Len(_tokenlist) :
        /\ _tokenlist[t].origin[1] > p
        /\ \A j \in p..Len(sourcefile) :
              j < _tokenlist[t].origin[Len(_tokenlist[t].origin)] => sourcefile[j] # "\n"

----------------------------------------------------------------------------
(* C17 - C19: sanitization *)

\* the identifiers of a buffered unit: its non-empty maximal runs without a
\* separator character, each as the sequence of its indices, in order
RECURSIVE IdentRuns(_, _, _)
IdentRuns(s, n, run) ==
    IF n > Len(s) THEN (IF run = <<>> THEN <<>> ELSE <<run>>)
    ELSE IF s[n] \in Punctuation
         THEN (IF run = <<>> THEN <<>> ELSE <<run>>) \o IdentRuns(s, n + 1, <<>>)
         ELSE IdentRuns(s, n + 1, Append(run, n))

\* the file positions of each identifier of the buffer
IdentifierOrigins ==
    LET runs == IdentRuns(tokenstr, 1, <<>>)
    IN  [r \in 1..Len(runs) |-> [n \in 1..Len(runs[r]) |-> tokenorigin[runs[r][n]]]]

\* a[i..] is a subsequence of b[j..]
RECURSIVE IsSubsequence(_, _, _, _)
IsSubsequence(a, i, b, j) ==
    IF i > Len(a) THEN TRUE
    ELSE IF j > Len(b) THEN FALSE
    ELSE IF a[i] = b[j] THEN IsSubsequence(a, i + 1, b, j + 1)
    ELSE IsSubsequence(a, i, b, j + 1)

\* the step empties a non-empty buffer: the buffer is sanitized
BufferFlushed == tokenstr # <<>> /\ tokenstr' = <<>>

\* the tokens the step appends to the token list
EmittedNow == SubSeq(_tokenlist', Len(_tokenlist) + 1, Len(_tokenlist'))

\* C17: when a buffered unit is sanitized, every token emitted for it is one
\* whole identifier of the unit (a maximal run without separator characters),
\* the tokens come in the order of the identifiers, all carry the same line
\* number, none holds a separator character, and a unit without angle
\* brackets yields every one of its identifiers.
PunctuationSplitsIdentifiers ==
    [][BufferFlushed =>
          LET new == EmittedNow
          IN  /\ IsSubsequence([t \in 1..Len(new) |-> new[t].origin], 1,
                               IdentifierOrigins, 1)
              /\ (\A n \in 1..Len(tokenstr) : tokenstr[n] \notin {"<", ">"})
                    => Len(new) = Len(IdentifierOrigins)
              /\ \A t \in 1..Len(new) :
                    /\ new[t].linenumber = new[1].linenumber
                    /\ \A n \in 1..Len(new[t].string) :
                          new[t].string[n] \notin Punctuation
    ]_vars

\* C18: every emitted token has a non-empty text that holds no whitespace
\* character.
NoEmptyOrBlankToken ==
    \A t \in 1..Len(_tokenlist) :
        /\ Len(_tokenlist[t].string) > 0
        /\ \A n \in 1..Len(_tokenlist[t].string) :
              _tokenlist[t].string[n] \notin Whitespace

\* C18 witness: a finished scan that emitted a token, sanitized a buffer
\* holding a separator character, and met a whitespace character right after
\* another one in normal code (a flush of the empty buffer).
EmptyFragmentsDiscarded ==
    /\ pc = "parsed"
    /\ Len(_tokenlist) > 0
    /\ \E p \in EmittedOrigins :
          p < Len(sourcefile) /\ sourcefile[p + 1] \in Punctuation
                              /\ CollectedInNormalCode(p + 1)
    /\ \E p \in 1..(Len(how) - 1) :
          /\ how[p].by = "loop" /\ how[p + 1].by = "loop"
          /\ sourcefile[p] \in Whitespace /\ sourcefile[p + 1] \in Whitespace
          /\ ~how[p + 1].in_multi_line_comment /\ ~how[p + 1].in_string

\* the index of the ">" that matches the "<" at index i of s, nested pairs
\* counted, or 0 if there is none
MatchOf(s, i) ==
    LET opens(j)  == Cardinality({k \in i..j : s[k] = "<"})
        closes(j) == Cardinality({k \in i..j : s[k] = ">"})
        at == {j \in (i + 1)..Len(s) : s[j] = ">" /\ opens(j) = closes(j)}
    IN  IF at = {} THEN 0 ELSE CHOOSE j \in at : \A k \in at : j <= k

\* the runs of a buffered unit outside its outermost matching angle-bracket
\* pairs: a matched span ends the run before it like a separator does
RECURSIVE RunsOutsideTemplates(_, _, _)
RunsOutsideTemplates(s, n, run) ==
    LET done == IF run = <<>> THEN <<>> ELSE <<run>>
    IN  IF n > Len(s) THEN done
        ELSE IF s[n] = "<" /\ MatchOf(s, n) # 0
             THEN done \o RunsOutsideTemplates(s, MatchOf(s, n) + 1, <<>>)
        ELSE IF s[n] \in Punctuation
             THEN done \o RunsOutsideTemplates(s, n + 1, <<>>)
        ELSE RunsOutsideTemplates(s, n + 1, Append(run, n))

\* C19: when a buffered unit is sanitized, the tokens emitted for it are the
\* runs of the unit outside its outermost matching "<" ... ">" pairs, nested
\* pairs included: nothing from inside a pair is emitted and the text on the
\* two sides of a pair is not joined.
TemplateSpansStripped ==
    [][BufferFlushed =>
          LET new  == EmittedNow
              runs == RunsOutsideTemplates(tokenstr, 1, <<>>)
          IN  [t \in 1..Len(new) |-> new[t].origin]
                = [r \in 1..Len(runs) |->
                      [n \in 1..Len(runs[r]) |-> tokenorigin[runs[r][n]]]]
    ]_vars

----------------------------------------------------------------------------
(* C20: the matcher *)

\* the mapping a printed line was looked up in
MappingOf(dict) ==
    CASE dict = "deprecated" -> deprecatedDict
      [] dict = "cautionary" -> cautionaryDict
      [] dict = "posix"      -> posixDict
      [] dict = "windows"    -> windowsDict

Categories == <<"deprecated", "cautionary", "posix", "windows">>

\* the category is tested for the tokens of this file
Enabled(dict) ==
    CASE dict = "deprecated" -> TRUE
      [] dict = "cautionary" -> cautionary
      [] dict = "posix"      -> posix
      [] dict = "windows"    -> windows

\* one line per consumed token from token t on and per enabled category from
\* category c on whose mapping holds the token's text, tokens in order and
\* categories in order within a token
RECURSIVE ExpectedReports(_, _)
ExpectedReports(t, c) ==
    IF t > _tokenIdx THEN <<>>
    ELSE IF c > Len(Categories) THEN ExpectedReports(t + 1, 1)
    ELSE (IF Enabled(Categories[c]) /\ _tokenlist[t].string \in MappingOf(Categories[c])
          THEN <<[dict |-> Categories[c], linenumber |-> _tokenlist[t].linenumber,
                  key |-> _tokenlist[t].string, origin |-> _tokenlist[t].origin]>>
          ELSE <<>>)
         \o ExpectedReports(t, c + 1)

\* C21: the lines printed for a file are, for each consumed token in order,
\* exactly one line per enabled category whose mapping holds the token's
\* text, in the order deprecated, cautionary, posix, windows; the deprecated
\* category is always enabled, the others only when their flag is set.
OneReportPerEnabledMapping == printed = ExpectedReports(1, 1)

\* C21 witness: the matcher has gone through a file holding a deprecated, a
\* cautionary and a POSIX identifier with the cautionary flag set and the
\* POSIX flag unset, and printed a deprecated and a cautionary line.
ReportsWithMixedFlags ==
    /\ pc = "end"
    /\ cautionary /\ ~posix
    /\ \E t \in 1..Len(_tokenlist) : _tokenlist[t].string \in posixDict
    /\ \E r \in 1..Len(printed) : printed[r].dict = "deprecated"
    /\ \E r \in 1..Len(printed) : printed[r].dict = "cautionary"

----------------------------------------------------------------------------
(* C22, C23: one file after another *)

\* the event at place a of the log follows the one before it as the run of
\* one file after another prescribes
InSequence(a) ==
    LET e == log[a]
        d == log[a - 1]
    IN  CASE e.ev = "begin" ->
               IF a = 1 THEN e.file = 1
               ELSE /\ e.file = d.file + 1
                    /\ d.ev \in {"scanned", "body"}
                    /\ d.token = Len(scans[d.file].tokens)
          [] e.ev = "scanned" ->
               a > 1 /\ d.ev = "begin" /\ d.file = e.file
          [] e.ev = "body" ->
               /\ a > 1 /\ d.file = e.file
               /\ d.ev = (IF e.token = 1 THEN "scanned" ELSE "body")
               /\ d.token = e.token - 1

\* C22: the files are processed strictly one after another: the scan of a
\* file is complete before the loop body runs for any of its tokens (so
\* before any of its reports is printed), the loop body runs for the tokens
\* in token order, it has run for every token of file i before the scan of
\* file i+1 begins, and the reports of a file are printed in token order.
FilesOneAfterAnother ==
    /\ \A a \in 1..Len(log) : InSequence(a)
    /\ Len(printed) > 0 => result = "returned"
    /\ \A q \in 1..Len(printed) : \A r \in 1..(q - 1) :
          printed[r].origin[1] <= printed[q].origin[1]

\* C22 witness: a run over three files has ended, the loop body has run for
\* tokens of the first and of the last of them, and a report was printed.
ThreeFilesInTurn ==
    /\ pc = "done"
    /\ fileIdx = 3
    /\ \E a \in 1..Len(log) : log[a].ev = "body" /\ log[a].file = 1
    /\ \E a \in 1..Len(log) : log[a].ev = "body" /\ log[a].file = 3
    /\ Len(printed) > 0

\* C23: the token list (line numbers and texts) of a scan depends only on the
\* content scanned: two scans of the same content in a run, the first one
\* of the run (nothing scanned before it) or one after any other files, have
\* produced the same token list.
TokenListDependsOnContentOnly ==
    \A i \in 1..Len(scans) : \A j \in 1..Len(scans) :
        scans[i].content = scans[j].content => scans[i].tokens = scans[j].tokens

\* C23 witness: a content that yields tokens was scanned first in the run
\* and again after a different file that yields a token and ends inside a
\* string literal.
SameContentScannedAgain ==
    /\ Len(scans) = 3
    /\ scans[1].content = scans[3].content
    /\ scans[2].content # scans[1].content
    /\ Len(scans[2].tokens) > 0
    /\ Len(scans[3].tokens) > 0

----------------------------------------------------------------------------
(* C24: termination of the scan *)

\* C24: every iteration of the main loop of _parse_file consumes at least
\* one character and never more than the file holds, the characters consumed
\* being those before the file offset (a peek leaves the offset alone); and
\* every scan that has begun comes to its end.
ScanTerminates ==
    /\ [][(pc = "parse" /\ pc' = "parse") =>
             /\ Len(how') > Len(how)
             /\ Len(how') <= Len(sourcefile)
             /\ Len(how') = pos' - (IF linechar' = "" THEN 0 ELSE 1)]_vars
    /\ (pc = "parse") ~> (pc = "parsed" /\ result # "")

\* C24 witness: a scan has ended after iterations that peeked and iterations
\* that read more than one character.
ScanEndedAfterPeeksAndSkips ==
    /\ pc = "parsed"
    /\ \E p \in 1..Len(how) : how[p].by = "skip"
    /\ \E p \in 1..(Len(how) - 1) :
          how[p].by = "loop" /\ how[p + 1].by = "loop" /\ sourcefile[p] = "/"
    /\ Len(_tokenlist) > 0

----------------------------------------------------------------------------
(* C27: paths that do not exist *)

\* a path given at startup is neither a directory nor a file
MissingPathGiven == \E n \in 1..Len(inputs) : inputs[n].kind = "missing"

\* C27: when a path given at startup does not exist the run stops with an
\* error: it never gets past main's look at the paths, takes no file and
\* does not end normally.
MissingPathIsFatal ==
    MissingPathGiven => (pc \in {"main", "error"} /\ fileIdx = 0)

----------------------------------------------------------------------------
(* C25, C26: iterating a Tokenizer again, and from two loops *)

\* the tokens of the list from the first on, by index
FirstTokens(n) == [i \in 1..n |-> i]

\* C25: a for loop over a Tokenizer that no other loop called into since it
\* began (one started after an earlier loop ended or was left part-way)
\* receives the tokens in order from the first one, and when it ends it has
\* received every token of the list.
LoopAloneGetsAllTokens ==
    \A r \in Readers :
        readers[r].alone =>
            /\ readers[r].got = FirstTokens(Len(readers[r].got))
            /\ readers[r].at = "done" => readers[r].got = FirstTokens(Len(_tokenlist))

\* C25 witness: a reader has ended its second loop over a list of several
\* tokens undisturbed, after another reader left a loop part-way.
SecondLoopAfterAbandonedOne ==
    \E r \in Readers : \E q \in Readers \ {r} :
        /\ readers[r].at = "done" /\ readers[r].iters = 2 /\ readers[r].alone
        /\ Len(readers[r].got) > 1
        /\ readers[q].at = "iterating"
        /\ Len(readers[q].got) > 0 /\ Len(readers[q].got) < Len(_tokenlist)

\* C26: every loop over a Tokenizer that has ended, interleaved with another
\* reader's loop or not, has received every token once and in order.
EveryLoopGetsAllTokens ==
    \A r \in Readers :
        readers[r].at = "done" => readers[r].got = FirstTokens(Len(_tokenlist))

----------------------------------------------------------------------------
(* C28, C29: the lexical modes *)

\* C28: a block comment is closed only by a "*/" whose "*" comes after the
\* "*" of the "/*" that opened it: the character two places before the "/"
\* of every closer was consumed inside the block comment, it is not the "/"
\* of the opener.
CloserAfterOpener ==
    \A p \in BlockClosers : p > 2 /\ how[p - 2].in_multi_line_comment

\* in_multi_line_comment as it was right after position p was consumed
InBlockCommentAfter(p) ==
    IF p < Len(how) THEN how[p + 1].in_multi_line_comment ELSE in_multi_line_comment

\* C29: in_multi_line_comment and in_string are never both set, and an
\* opener is recognised only in normal code: a "/" or a single quote read by
\* the main loop while in_string is set, and a double quote, a single quote
\* or a "/" read while in_multi_line_comment is set, changes neither flag
\* and takes no further character with it.
ModesExclusiveOpenersInNormalCodeOnly ==
    /\ ~(in_multi_line_comment /\ in_string)
    /\ \A p \in 1..Len(how) :
          LET m == how[p]
              plain == p < Len(how) => how[p + 1].by = "loop"
          IN  /\ ~(m.in_multi_line_comment /\ m.in_string)
              /\ (m.by = "loop" /\ m.in_string /\ sourcefile[p] \in {"/", "'"})
                    => (InStringAfter(p) /\ ~InBlockCommentAfter(p) /\ plain)
              /\ (m.by = "loop" /\ m.in_multi_line_comment
                                /\ sourcefile[p] \in {"\"", "'", "/"})
                    => (InBlockCommentAfter(p) /\ ~InStringAfter(p) /\ plain)

\* C29 witness: a finished scan read "//" inside a string literal and
\* emitted a token from the code after that literal on the same line.
TokenAfterUrlString ==
    /\ pc = "parsed"
    /\ \E p \in 1..(Len(how) - 1) :
          /\ how[p].in_string /\ how[p + 1].in_string
          /\ sourcefile[p] = "/" /\ sourcefile[p + 1] = "/"
          /\ \E o \in EmittedOrigins :
                o > p /\ \A j \in p..o : sourcefile[j] # "\n"

----------------------------------------------------------------------------
(* C30: the keys of the mappings *)

\* C30: every key of every mapping is matchable: when the matcher, with
\* every category enabled, has gone through the file that holds a key as it
\* is written, followed by a line end, a report for that key was printed.
EveryKeyAsWordIsReported ==
    (pc = "end" /\ cautionary /\ posix /\ windows) =>
        \A k \in AllKeys :
            sourcefile = k \o <<"\n">> => \E r \in 1..Len(printed) : printed[r].key = k

====
